---- MODULE Spec2Model ----
(***************************************************************************)
(* A model of the Mython interpreter: the indentation-sensitive lexer      *)
(* (lexer.cpp), the runtime value model (runtime.cpp) and the tree-walking *)
(* evaluator (statement.cpp).                                              *)
(*                                                                         *)
(* Characters are one-character strings, a line is a sequence of           *)
(* characters, a source is a sequence of lines (what std::getline yields). *)
(***************************************************************************)
EXTENDS Integers, Sequences, FiniteSets, TLC

VARIABLES
    source,                 \* the lines std::getline will deliver to Lexer::Lexer
    lexer_state,            \* "new" | "ready" | "LexerError" | "out_of_range"
    tokens_,                \* Lexer::tokens_
    it_to_current_token_,   \* Lexer::it_to_current_token_ as a 1-based index (0: none)
    returned,               \* what the last NextToken call returned
    frames,                 \* the live closures: frames[1] is the driver's global closure
    heap,                   \* the ClassInstance objects, by identity
    out,                    \* what was written to context.GetOutputStream()
    log,                    \* the Execute calls of the last root statement, in order
    status,                 \* "running", or how the last root Execute ended the run
    steps                   \* the number of root statements executed

----------------------------------------------------------------------------
(* Bounds of the model. *)

MaxLines == 3
MaxStrLen == 4
MaxSteps == 3

----------------------------------------------------------------------------
(* Tokens (lexer.h): a tagged variant; Number, Id, Char and String carry a value. *)

Tok(t) == [type |-> t]
ValTok(t, v) == [type |-> t, value |-> v]

StructuralTypes == {"Indent", "Dedent", "Newline", "Eof"}

IntMax == 2147483647

----------------------------------------------------------------------------
(* Character classes. *)

Lower == {"a","b","c","d","e","f","g","h","i","j","k","l","m",
          "n","o","p","q","r","s","t","u","v","w","x","y","z"}
Upper == {"A","B","C","D","E","F","G","H","I","J","K","L","M",
          "N","O","P","Q","R","S","T","U","V","W","X","Y","Z"}
Digits == <<"0","1","2","3","4","5","6","7","8","9">>

IsDigit(c) == \E i \in 1..10 : Digits[i] = c
DigitValue(c) == (CHOOSE i \in 1..10 : Digits[i] = c) - 1
IsSpace(c) == c \in {" ", "\t", "\n", "\r", "\f"}

CheckSymbolForIdBegin(c) == c = "_" \/ c \in Lower \/ c \in Upper
CheckSymbolForId(c) == CheckSymbolForIdBegin(c) \/ IsDigit(c)

(* std::map<std::string_view, Token> iterates in the order of its keys. *)
key_words_for_tokens ==
    << [word |-> <<"F","a","l","s","e">>,     token |-> Tok("False")],
       [word |-> <<"N","o","n","e">>,         token |-> Tok("None")],
       [word |-> <<"T","r","u","e">>,         token |-> Tok("True")],
       [word |-> <<"a","n","d">>,             token |-> Tok("And")],
       [word |-> <<"c","l","a","s","s">>,     token |-> Tok("Class")],
       [word |-> <<"d","e","f">>,             token |-> Tok("Def")],
       [word |-> <<"e","l","s","e">>,         token |-> Tok("Else")],
       [word |-> <<"i","f">>,                 token |-> Tok("If")],
       [word |-> <<"n","o","t">>,             token |-> Tok("Not")],
       [word |-> <<"o","r">>,                 token |-> Tok("Or")],
       [word |-> <<"p","r","i","n","t">>,     token |-> Tok("Print")],
       [word |-> <<"r","e","t","u","r","n">>, token |-> Tok("Return")] >>

symbols_for_comparison ==
    << [word |-> <<"!","=">>, token |-> Tok("NotEq")],
       [word |-> <<"<","=">>, token |-> Tok("LessOrEq")],
       [word |-> <<"=","=">>, token |-> Tok("Eq")],
       [word |-> <<">","=">>, token |-> Tok("GreaterOrEq")] >>

chars == {"<", ">", "=", "+", "-", "*", "/", "(", ")", ".", ",", ":"}

----------------------------------------------------------------------------
(* string_view helpers. *)

(* Evaluates v once and hands its value to F: a local variable holding what  *)
(* a call returned.                                                          *)
WithResult(v, F(_)) == CHOOSE x \in { F(r) : r \in {v} } : TRUE

RemovePrefix(line, n) == SubSeq(line, n + 1, Len(line))
StartsWith(line, word) ==
    Len(line) >= Len(word) /\ SubSeq(line, 1, Len(word)) = word

(* The result of a Split... function: std::optional<Token>, the line as the   *)
(* function left it, and the exception it threw ("none" when it returned).    *)
Nullopt(line) == [ok |-> FALSE, token |-> Tok("nullopt"), rest |-> line, err |-> "none"]
Some(token, line) == [ok |-> TRUE, token |-> token, rest |-> line, err |-> "none"]
Throw(kind, line) == [ok |-> FALSE, token |-> Tok("nullopt"), rest |-> line, err |-> kind]

(* The number of leading spaces; the caller removes them from its view. *)
RECURSIVE RemoveSpaceLeft(_)
RemoveSpaceLeft(line) ==
    IF line # <<>> /\ line[1] = " " THEN 1 + RemoveSpaceLeft(Tail(line)) ELSE 0

(* The index of the first entry of table whose word starts line, or 0. *)
FindIf(table, line) ==
    LET hits == {i \in 1..Len(table) : StartsWith(line, table[i].word)}
    IN IF hits = {} THEN 0 ELSE CHOOSE i \in hits : \A j \in hits : i <= j

SplitTokenKeyWord(line) ==
    WithResult(FindIf(key_words_for_tokens, line), LAMBDA k :
        IF k # 0
           /\ \E n \in {Len(key_words_for_tokens[k].word)} :
                 \/ Len(line) = n
                 \/ IsSpace(line[n + 1])
                 \/ line[n + 1] = ":"
                 \/ line[n + 1] = ","
        THEN Some(key_words_for_tokens[k].token,
                  RemovePrefix(line, Len(key_words_for_tokens[k].word)))
        ELSE Nullopt(line))

SplitTokenComparison(line) ==
    WithResult(FindIf(symbols_for_comparison, line), LAMBDA k :
        IF k # 0
        THEN Some(symbols_for_comparison[k].token,
                  RemovePrefix(line, Len(symbols_for_comparison[k].word)))
        ELSE Nullopt(line))

SplitTokenChar(line) ==
    IF line # <<>> /\ line[1] \in chars
    THEN Some(ValTok("Char", line[1]), RemovePrefix(line, 1))
    ELSE Nullopt(line)

RECURSIVE DigitRun(_, _)
DigitRun(line, pos) ==
    IF pos < Len(line) /\ IsDigit(line[pos + 1]) THEN DigitRun(line, pos + 1) ELSE pos

RECURSIVE Decimal(_)
Decimal(digits) ==
    IF digits = <<>> THEN 0
    ELSE 10 * Decimal(SubSeq(digits, 1, Len(digits) - 1)) + DigitValue(digits[Len(digits)])

SplitTokenNumber(line) ==
    WithResult(DigitRun(line, 0), LAMBDA pos :
        IF pos # 0
        THEN WithResult(Decimal(SubSeq(line, 1, pos)), LAMBDA num :
                 IF num > IntMax
                 THEN Throw("out_of_range", line)
                 ELSE Some(ValTok("Number", num), RemovePrefix(line, pos)))
        ELSE Nullopt(line))

symbols_range == {"\"", "'"}
symbols_for_backslash_shielding == {"\"", "'", "n", "t"}

(* The while loop of SplitTokenString; pos is the 0-based index into line,   *)
(* which is the view after the opening quote.                                *)
RECURSIVE StringLoop(_, _, _, _)
StringLoop(line, pos, value, start) ==
    IF ~(pos < Len(line)) THEN [pos |-> pos, value |-> value]
    ELSE IF line[pos + 1] = "\\"
    THEN LET next_pos == pos + 1
             p == IF next_pos < Len(line)
                     /\ line[next_pos + 1] \in symbols_for_backslash_shielding
                  THEN pos + 1 ELSE pos
             c == line[p + 1]
             v == IF c = "n" THEN Append(value, "\n")
                  ELSE IF c = "t" THEN Append(value, "\t")
                  ELSE Append(value, c)
         IN StringLoop(line, p + 1, v, start)
    ELSE IF line[pos + 1] = start
    THEN [pos |-> pos + 1, value |-> value]
    ELSE StringLoop(line, pos + 1, Append(value, line[pos + 1]), start)

SplitTokenString(line) ==
    IF line = <<>> \/ line[1] \notin symbols_range
    THEN Nullopt(line)
    ELSE WithResult(StringLoop(RemovePrefix(line, 1), 0, <<>>, line[1]), LAMBDA r :
             Some(ValTok("String", r.value), RemovePrefix(RemovePrefix(line, 1), r.pos)))

RECURSIVE IdRun(_, _)
IdRun(line, pos) ==
    IF pos < Len(line) /\ CheckSymbolForId(line[pos + 1]) THEN IdRun(line, pos + 1) ELSE pos

SplitTokenId(line) ==
    IF line = <<>> \/ ~CheckSymbolForIdBegin(line[1])
    THEN Nullopt(line)
    ELSE WithResult(IdRun(line, 1), LAMBDA pos :
             Some(ValTok("Id", SubSeq(line, 1, pos)), RemovePrefix(line, pos)))

SplitTokenLeft(line) ==
    IF line = <<>> \/ line[1] = "#"
    THEN Nullopt(<<>>)
    ELSE WithResult(SplitTokenKeyWord(line), LAMBDA kw :
         IF kw.ok THEN kw ELSE
         WithResult(SplitTokenComparison(line), LAMBDA cmp :
         IF cmp.ok THEN cmp ELSE
         WithResult(SplitTokenChar(line), LAMBDA ch :
         IF ch.ok THEN ch ELSE
         WithResult(SplitTokenNumber(line), LAMBDA num :
         IF num.ok \/ num.err # "none" THEN num ELSE
         WithResult(SplitTokenString(line), LAMBDA str :
         IF str.ok THEN str ELSE
         WithResult(SplitTokenId(line), LAMBDA id :
         IF id.ok THEN id
         ELSE Throw("LexerError", line)))))))

(* The inner while loop of Lexer::Lexer over one line's view. *)
RECURSIVE TokenizeLine(_, _)
TokenizeLine(line_view, tokens_of_current_line) ==
    IF line_view = <<>>
    THEN [err |-> "none", tokens |-> tokens_of_current_line]
    ELSE WithResult(RemovePrefix(line_view, RemoveSpaceLeft(line_view)), LAMBDA view :
             IF view = <<>>
             THEN [err |-> "none", tokens |-> tokens_of_current_line]
             ELSE WithResult(SplitTokenLeft(view), LAMBDA r :
                      IF r.err # "none"
                      THEN [err |-> r.err, tokens |-> tokens_of_current_line]
                      ELSE TokenizeLine(r.rest,
                                        IF r.ok THEN Append(tokens_of_current_line, r.token)
                                        ELSE tokens_of_current_line)))

Repeat(token, n) == [i \in 1..n |-> token]

(* One iteration of the getline loop of Lexer::Lexer: the tokens the line     *)
(* appends to tokens_ and the new prev_indent.                                *)
LexLine(line, prev_indent) ==
    LET current_indent == RemoveSpaceLeft(line)
        line_view == RemovePrefix(line, current_indent)
    IN IF line_view = <<>>
       THEN [err |-> "none", tokens |-> <<>>, prev_indent |-> prev_indent]
       ELSE IF current_indent % 2 # 0
       THEN [err |-> "LexerError", tokens |-> <<>>, prev_indent |-> prev_indent]
       ELSE LET dents == IF current_indent > prev_indent
                         THEN <<Tok("Indent")>>
                         ELSE IF current_indent < prev_indent
                         THEN Repeat(Tok("Dedent"), (prev_indent - current_indent) \div 2)
                         ELSE <<>>
            IN WithResult(TokenizeLine(line_view, dents), LAMBDA r :
                   IF r.err # "none"
                   THEN [err |-> r.err, tokens |-> <<>>, prev_indent |-> current_indent]
                   ELSE [err |-> "none",
                         tokens |-> IF r.tokens # <<>>
                                    THEN Append(r.tokens, Tok("Newline"))
                                    ELSE <<>>,
                         prev_indent |-> current_indent])

(* The getline loop from line i on. *)
RECURSIVE LexLines(_, _, _, _)
LexLines(lines, i, prev_indent, tokens) ==
    IF i > Len(lines)
    THEN [err |-> "none", tokens |-> tokens, prev_indent |-> prev_indent]
    ELSE WithResult(LexLine(lines[i], prev_indent), LAMBDA r :
             IF r.err # "none"
             THEN [err |-> r.err, tokens |-> <<>>, prev_indent |-> r.prev_indent]
             ELSE LexLines(lines, i + 1, r.prev_indent, tokens \o r.tokens))

(* Lexer::Lexer as a function of its input: the exception, or tokens_. *)
LexerTokens(lines) ==
    WithResult(LexLines(lines, 1, 0, <<>>), LAMBDA r :
        IF r.err # "none"
        THEN [err |-> r.err, tokens |-> <<>>]
        ELSE [err |-> "none",
              tokens |-> (r.tokens \o Repeat(Tok("Dedent"), r.prev_indent \div 2))
                         \o <<Tok("Eof")>>])

----------------------------------------------------------------------------
(* The inputs: lines drawn from a pool of line shapes. *)

Spaces(n) == [i \in 1..n |-> " "]

IndentPool == {0, 1, 2, 4}
BodyPool == { <<>>, <<"#">>, <<"x">> }
LinePool ==
    { Spaces(n) \o b : n \in IndentPool, b \in BodyPool }
    \cup { <<"x", " ", "#", "y">>,       \* a trailing comment
           <<"\"", "a">>,                \* a string literal that is never closed
           <<"!">> }                     \* a character that starts no token

RECURSIVE SeqsUpTo(_, _)
SeqsUpTo(S, n) ==
    IF n = 0 THEN { <<>> }
    ELSE LET shorter == SeqsUpTo(S, n - 1)
         IN shorter \cup { Append(s, x) : s \in {t \in shorter : Len(t) = n - 1}, x \in S }

----------------------------------------------------------------------------
(* The lexer as a state machine. *)

LexerNew(src) ==
    /\ source = src
    /\ lexer_state = "new"
    /\ tokens_ = <<>>
    /\ it_to_current_token_ = 0
    /\ returned = Tok("nullopt")

(* explicit Lexer(std::istream& input) *)
LexerCtor ==
    /\ lexer_state = "new"
    /\ \E r \in { LexerTokens(source) } :
          IF r.err # "none"
          THEN /\ lexer_state' = r.err
               /\ UNCHANGED <<tokens_, it_to_current_token_>>
          ELSE /\ lexer_state' = "ready"
               /\ tokens_' = r.tokens
               /\ it_to_current_token_' = 1
    /\ UNCHANGED <<source, returned>>
    /\ UNCHANGED <<frames, heap, out, log, status, steps>>

CurrentToken == tokens_[it_to_current_token_]

(* NextToken with the guard comparing against tokens_.end(): the cursor     *)
(* walks off the last token.                                                 *)
NextTokenPastEnd ==
    /\ lexer_state = "ready"
    /\ it_to_current_token_ <= Len(tokens_)
    /\ it_to_current_token_' = it_to_current_token_ + 1
    /\ returned' = IF it_to_current_token_' <= Len(tokens_)
                   THEN tokens_[it_to_current_token_']
                   ELSE Tok("nullopt")
    /\ UNCHANGED <<source, lexer_state, tokens_>>
    /\ UNCHANGED <<frames, heap, out, log, status, steps>>

(* Token Lexer::NextToken() *)
NextToken ==
    /\ lexer_state = "ready"
    /\ it_to_current_token_' =
          IF it_to_current_token_ # Len(tokens_)
          THEN it_to_current_token_ + 1
          ELSE it_to_current_token_
    /\ returned' = tokens_[it_to_current_token_']
    /\ UNCHANGED <<source, lexer_state, tokens_>>
    /\ UNCHANGED <<frames, heap, out, log, status, steps>>

----------------------------------------------------------------------------
(* The runtime value model (runtime.cpp).                                    *)
(*                                                                           *)
(* An ObjectHolder is a record: the empty holder, a leaf value, a Class, or  *)
(* a handle to the ClassInstance heap[id], owning (ObjectHolder::Own and its *)
(* copies) or not (ObjectHolder::Share).  Strings are sequences of           *)
(* characters.  A Closure is a function from names to holders.               *)

NoneHolder == [kind |-> "None"]
Number(n) == [kind |-> "Number", value |-> n]
String(s) == [kind |-> "String", value |-> s]
Bool(b) == [kind |-> "Bool", value |-> b]
ClassHolder(name) == [kind |-> "Class", name |-> name]
Own(id) == [kind |-> "ClassInstance", id |-> id, owning |-> TRUE]
Share(id) == [kind |-> "ClassInstance", id |-> id, owning |-> FALSE]

EmptyClosure == <<>>
Bind(closure, key, holder) == (key :> holder) @@ closure
Emplace(closure, key, holder) ==
    IF key \in DOMAIN closure THEN closure ELSE Bind(closure, key, holder)

IsTrue(object) ==
    IF object.kind = "String" THEN object.value # <<>>
    ELSE IF object.kind = "Number" THEN object.value # 0
    ELSE IF object.kind = "Bool" THEN object.value
    ELSE FALSE

(* The outcome of an Execute or a Call: the state it leaves, and either the  *)
(* holder it returned (exc = "none") or the exception it threw: "return" is  *)
(* Return's thrown ObjectHolder (carried in val), "runtime_error" a          *)
(* std::runtime_error, "undefined" a dereference of a null pointer.          *)
Ok(st, val) == [st |-> st, val |-> val, exc |-> "none"]
Raise(st, exc, val) == [st |-> st, val |-> val, exc |-> exc]

----------------------------------------------------------------------------
(* The nodes of the AST (statement.h). *)

Const(holder) == [op |-> "Const", value |-> holder]
Assignment(var, rv) == [op |-> "Assignment", var |-> var, rv |-> rv]
VariableValue(dotted_ids) == [op |-> "VariableValue", var_names |-> dotted_ids]
PrintNode(args) == [op |-> "Print", args |-> args]
MethodCall(object, method, args) ==
    [op |-> "MethodCall", object |-> object, method |-> method, args |-> args]
NewInstance(cls, args) == [op |-> "NewInstance", cls |-> cls, args |-> args]
Compound(args) == [op |-> "Compound", args |-> args]
Return(statement) == [op |-> "Return", statement |-> statement]
FieldAssignment(object, field_name, rv) ==
    [op |-> "FieldAssignment", object |-> object, field_name |-> field_name, rv |-> rv]
IfElse(condition, if_body, else_body) ==
    [op |-> "IfElse", condition |-> condition, if_body |-> if_body, else_body |-> else_body]
Or(lhs, rhs) == [op |-> "Or", lhs |-> lhs, rhs |-> rhs]
And(lhs, rhs) == [op |-> "And", lhs |-> lhs, rhs |-> rhs]
Not(argument) == [op |-> "Not", argument |-> argument]
MethodBody(body) == [op |-> "MethodBody", body |-> body]
(* cmp names the Comparator: one of the six functions of runtime.cpp. *)
Comparison(cmp, lhs, rhs) == [op |-> "Comparison", cmp |-> cmp, lhs |-> lhs, rhs |-> rhs]
Stringify(argument) == [op |-> "Stringify", argument |-> argument]
ClassDefinition(cls) == [op |-> "ClassDefinition", cls |-> cls]
NullStatement == [op |-> "null"]


----------------------------------------------------------------------------
(* Classes.  std::string's order on the names the model uses.                *)

NameOrder == <<"__add__", "__eq__", "__gt__", "__init__", "__lt__", "__str__",
               "d", "e", "f", "g", "h", "leak", "m", "n", "p", "peek", "q", "rec",
               "s", "z">>
NameRank(name) == CHOOSE i \in 1..Len(NameOrder) : NameOrder[i] = name
NameLess(a, b) == NameRank(a) < NameRank(b)

Method(name, formal_params, body) ==
    [name |-> name, formal_params |-> formal_params, body |-> body]

(* Class::Class: the methods are kept sorted by name; parent is a class name,  *)
(* or "" for a null parent_.                                                   *)
Class(name, methods, parent) ==
    [name |-> name,
     methods |-> SortSeq(methods, LAMBDA l, r : NameLess(l.name, r.name)),
     parent |-> parent]

Self == VariableValue(<<"self">>)
Text(s) == Const(String(s))

(* The classes of the programs the model runs, as the parser hands them to    *)
(* the evaluator (every method body wrapped in a MethodBody):                 *)
(*   class C:                                                                 *)
(*     def __init__():  self.n = 0                                            *)
(*     def f():                                                               *)
(*       if True:                                                             *)
(*         if True:                                                           *)
(*           return 42                                                        *)
(*         print 'u1'                                                         *)
(*       print 'u2'                                                           *)
(*       return 0                                                             *)
(*     def g():  self.v = self.f(); print self.v                              *)
(*     def e():  return undefined                                             *)
(*     def m():  t = self.e(); print 'u3'; return 1                           *)
(*     def h(a):                                                              *)
(*       if a:  return a                                                      *)
(*       else:  x = 1                                                         *)
(*   class D(C):                                                              *)
(*     def f():  return 'd'                                                   *)
Body_init == MethodBody(Compound(<< FieldAssignment(Self, "n", Const(Number(0))) >>))
Body_f ==
    MethodBody(Compound(<<
        IfElse(Const(Bool(TRUE)),
               Compound(<< IfElse(Const(Bool(TRUE)),
                                  Compound(<< Return(Const(Number(42))) >>),
                                  NullStatement),
                           PrintNode(<< Text(<<"u", "1">>) >>) >>),
               NullStatement),
        PrintNode(<< Text(<<"u", "2">>) >>),
        Return(Const(Number(0))) >>))
Body_g ==
    MethodBody(Compound(<<
        FieldAssignment(Self, "v", MethodCall(Self, "f", <<>>)),
        PrintNode(<< VariableValue(<<"self", "v">>) >>) >>))
Body_e == MethodBody(Compound(<< Return(VariableValue(<<"undefined">>)) >>))
Body_m ==
    MethodBody(Compound(<<
        Assignment("t", MethodCall(Self, "e", <<>>)),
        PrintNode(<< Text(<<"u", "3">>) >>),
        Return(Const(Number(1))) >>))
Body_h ==
    MethodBody(Compound(<<
        IfElse(VariableValue(<<"a">>),
               Compound(<< Return(VariableValue(<<"a">>)) >>),
               Compound(<< Assignment("x", Const(Number(1))) >>)) >>))
Body_Df == MethodBody(Compound(<< Return(Text(<<"d">>)) >>))

(*   class E:                                                                 *)
(*     def __lt__(o):  return self.lt                                         *)
(*     def __eq__(o):  return self.eq                                         *)
(*     def __gt__(o):  print 'gt'; return True                                *)
(*   class E0:                                                                *)
(*     def __eq__():  return True                                             *)
(*     def __lt__(o, p):  return True                                         *)
Body_lt == MethodBody(Compound(<< Return(VariableValue(<<"self", "lt">>)) >>))
Body_eq == MethodBody(Compound(<< Return(VariableValue(<<"self", "eq">>)) >>))
Body_gt == MethodBody(Compound(<< PrintNode(<< Text(<<"g", "t">>) >>),
                                  Return(Const(Bool(TRUE))) >>))
Body_true == MethodBody(Compound(<< Return(Const(Bool(TRUE))) >>))

(*   class S:                                                                 *)
(*     def s(self):  return self                                              *)
(*     def d(a, a):  return a                                                 *)
(*   class R:                                                                 *)
(*     def rec(n):                                                            *)
(*       t = n                                                                *)
(*       if n:  u = self.rec(0)                                               *)
(*       return t                                                             *)
(*     def leak():  x = 5; r = 6; return x                                    *)
(*     def peek():  return t                                                  *)
Body_s == MethodBody(Compound(<< Return(Self) >>))
Body_d == MethodBody(Compound(<< Return(VariableValue(<<"a">>)) >>))
Body_rec ==
    MethodBody(Compound(<<
        Assignment("t", VariableValue(<<"n">>)),
        IfElse(VariableValue(<<"n">>),
               Compound(<< Assignment("u", MethodCall(Self, "rec", << Const(Number(0)) >>)) >>),
               NullStatement),
        Return(VariableValue(<<"t">>)) >>))
Body_leak ==
    MethodBody(Compound(<< Assignment("x", Const(Number(5))),
                           Assignment("r", Const(Number(6))),
                           Return(VariableValue(<<"x">>)) >>))
Body_peek == MethodBody(Compound(<< Return(VariableValue(<<"t">>)) >>))

(* Chains of up to three classes.  A class of the chain declares, in this    *)
(* order, one of three method lists (its variant):                           *)
(*   0:  def n()                                                             *)
(*   1:  def q(), def p(), def n(a)                                          *)
(*   2:  def p(a), def q(a, b)                                               *)
(* The name of a class spells its variant and then those of its ancestors.   *)
(* Every method returns a number of its own.                                 *)
KTable ==
    <<
       [name |-> "K0", variant |-> 0, parent |-> ""],
       [name |-> "K1", variant |-> 1, parent |-> ""],
       [name |-> "K2", variant |-> 2, parent |-> ""],
       [name |-> "K00", variant |-> 0, parent |-> "K0"],
       [name |-> "K01", variant |-> 0, parent |-> "K1"],
       [name |-> "K02", variant |-> 0, parent |-> "K2"],
       [name |-> "K10", variant |-> 1, parent |-> "K0"],
       [name |-> "K11", variant |-> 1, parent |-> "K1"],
       [name |-> "K12", variant |-> 1, parent |-> "K2"],
       [name |-> "K20", variant |-> 2, parent |-> "K0"],
       [name |-> "K21", variant |-> 2, parent |-> "K1"],
       [name |-> "K22", variant |-> 2, parent |-> "K2"],
       [name |-> "K000", variant |-> 0, parent |-> "K00"],
       [name |-> "K001", variant |-> 0, parent |-> "K01"],
       [name |-> "K002", variant |-> 0, parent |-> "K02"],
       [name |-> "K010", variant |-> 0, parent |-> "K10"],
       [name |-> "K011", variant |-> 0, parent |-> "K11"],
       [name |-> "K012", variant |-> 0, parent |-> "K12"],
       [name |-> "K020", variant |-> 0, parent |-> "K20"],
       [name |-> "K021", variant |-> 0, parent |-> "K21"],
       [name |-> "K022", variant |-> 0, parent |-> "K22"],
       [name |-> "K100", variant |-> 1, parent |-> "K00"],
       [name |-> "K101", variant |-> 1, parent |-> "K01"],
       [name |-> "K102", variant |-> 1, parent |-> "K02"],
       [name |-> "K110", variant |-> 1, parent |-> "K10"],
       [name |-> "K111", variant |-> 1, parent |-> "K11"],
       [name |-> "K112", variant |-> 1, parent |-> "K12"],
       [name |-> "K120", variant |-> 1, parent |-> "K20"],
       [name |-> "K121", variant |-> 1, parent |-> "K21"],
       [name |-> "K122", variant |-> 1, parent |-> "K22"],
       [name |-> "K200", variant |-> 2, parent |-> "K00"],
       [name |-> "K201", variant |-> 2, parent |-> "K01"],
       [name |-> "K202", variant |-> 2, parent |-> "K02"],
       [name |-> "K210", variant |-> 2, parent |-> "K10"],
       [name |-> "K211", variant |-> 2, parent |-> "K11"],
       [name |-> "K212", variant |-> 2, parent |-> "K12"],
       [name |-> "K220", variant |-> 2, parent |-> "K20"],
       [name |-> "K221", variant |-> 2, parent |-> "K21"],
       [name |-> "K222", variant |-> 2, parent |-> "K22"]
    >>
KNames == { KTable[i].name : i \in 1..Len(KTable) }
KRow(name) == CHOOSE i \in 1..Len(KTable) : KTable[i].name = name
KBody(name, method) ==
    MethodBody(Compound(<< Return(Const(Number(100 * KRow(name) + NameRank(method)))) >>))
KMethods(name) ==
    CASE KTable[KRow(name)].variant = 0 -> << Method("n", <<>>, KBody(name, "n")) >>
      [] KTable[KRow(name)].variant = 1 ->
           << Method("q", <<>>, KBody(name, "q")),
              Method("p", <<>>, KBody(name, "p")),
              Method("n", <<"a">>, KBody(name, "n")) >>
      [] KTable[KRow(name)].variant = 2 ->
           << Method("p", <<"a">>, KBody(name, "p")),
              Method("q", <<"a", "b">>, KBody(name, "q")) >>

ClassNames == {"C", "D", "E", "E0", "S", "R"} \cup KNames
ClassTable ==
    [name \in ClassNames |->
        CASE name = "C" ->
               Class("C", << Method("f", <<>>, Body_f),
                             Method("__init__", <<>>, Body_init),
                             Method("m", <<>>, Body_m),
                             Method("g", <<>>, Body_g),
                             Method("h", <<"a">>, Body_h),
                             Method("e", <<>>, Body_e) >>, "")
          [] name = "D" -> Class("D", << Method("f", <<>>, Body_Df) >>, "C")
          [] name = "E" ->
               Class("E", << Method("__lt__", <<"o">>, Body_lt),
                             Method("__gt__", <<"o">>, Body_gt),
                             Method("__eq__", <<"o">>, Body_eq) >>, "")
          [] name = "E0" ->
               Class("E0", << Method("__eq__", <<>>, Body_true),
                              Method("__lt__", <<"o", "p">>, Body_true) >>, "")
          [] name = "S" ->
               Class("S", << Method("s", <<"self">>, Body_s),
                             Method("d", <<"a", "a">>, Body_d) >>, "")
          [] name = "R" ->
               Class("R", << Method("rec", <<"n">>, Body_rec),
                             Method("leak", <<>>, Body_leak),
                             Method("peek", <<>>, Body_peek) >>, "")
          [] OTHER -> Class(name, KMethods(name), KTable[KRow(name)].parent)]

(* std::lower_bound: the first index whose method's name is not less than    *)
(* name, or Len(methods) + 1.                                                *)
LowerBound(methods, name) ==
    LET hits == {i \in 1..Len(methods) : ~NameLess(methods[i].name, name)}
    IN IF hits = {} THEN Len(methods) + 1
       ELSE CHOOSE i \in hits : \A j \in hits : i <= j

NullMethod == [name |-> "", formal_params |-> <<>>, body |-> [op |-> "null"]]

(* A lookup whose loop over the parents does not stop at the first class    *)
(* that has the name: the definition farthest up the chain wins.            *)
RECURSIVE GetMethodFarthest(_, _)
GetMethodFarthest(cls, name) ==
    IF cls = "" THEN NullMethod
    ELSE WithResult(ClassTable[cls], LAMBDA c :
             WithResult(GetMethodFarthest(c.parent, name), LAMBDA up :
                 IF up # NullMethod THEN up
                 ELSE WithResult(LowerBound(c.methods, name), LAMBDA it :
                          IF it # Len(c.methods) + 1 /\ c.methods[it].name = name
                          THEN c.methods[it]
                          ELSE NullMethod)))

(* const Method* Class::GetMethod(name), on the class named cls. *)
RECURSIVE GetMethod(_, _)
GetMethod(cls, name) ==
    IF cls = "" THEN NullMethod
    ELSE WithResult(ClassTable[cls], LAMBDA c :
             WithResult(LowerBound(c.methods, name), LAMBDA it :
                 IF it # Len(c.methods) + 1 /\ c.methods[it].name = name
                 THEN c.methods[it]
                 ELSE GetMethod(c.parent, name)))

HasMethod(cls, method, argument_count) ==
    LET mth == GetMethod(cls, method)
    IN IF mth # NullMethod
       THEN Len(mth.formal_params) = argument_count
       ELSE FALSE

----------------------------------------------------------------------------
(* The AST (statement.h) and its evaluation (statement.cpp).                 *)
(*                                                                           *)
(* st is [frames, heap, out, log]; a closure argument is the index of a      *)
(* frame, since the code passes closures by reference.                       *)

Logged(st, event) == [st EXCEPT !.log = Append(@, event)]
Written(st, piece) == [st EXCEPT !.out = Append(@, piece)]

RECURSIVE Execute(_, _, _)

(* Evaluates the statements of args from index i on, left to right, into     *)
(* the vector acc; stops at the first that throws.                           *)
RECURSIVE ExecuteAll(_, _, _, _, _)
ExecuteAll(args, i, acc, closure, st) ==
    IF i > Len(args) THEN [st |-> st, vals |-> acc, val |-> NoneHolder, exc |-> "none"]
    ELSE WithResult(Execute(args[i], closure, st), LAMBDA r :
            IF r.exc # "none"
            THEN [st |-> r.st, vals |-> acc, val |-> r.val, exc |-> r.exc]
            ELSE ExecuteAll(args, i + 1, Append(acc, r.val), closure, r.st))

(* The loop of ClassInstance::Call that emplaces the formal parameters. *)
RECURSIVE EmplaceParams(_, _, _, _)
EmplaceParams(closure, formal_params, actual_args, i) ==
    IF i > Len(formal_params) THEN closure
    ELSE EmplaceParams(Emplace(closure, formal_params[i], actual_args[i]),
                       formal_params, actual_args, i + 1)

(* ObjectHolder ClassInstance::Call(method, actual_args, context) on heap[id]: *)
(* the call's closure is a new frame, gone when the call ends.                 *)
ClassInstanceCall(id, method, actual_args, st) ==
    IF ~HasMethod(st.heap[id].cls, method, Len(actual_args))
    THEN Raise(st, "runtime_error", NoneHolder)
    ELSE LET mth == GetMethod(st.heap[id].cls, method)
             closure == Emplace(EmplaceParams(EmptyClosure, mth.formal_params, actual_args, 1),
                                "self", Share(id))
             st1 == [st EXCEPT !.frames = Append(@, closure)]
         IN WithResult(Execute(mth.body, Len(st1.frames), st1), LAMBDA r :
                [r EXCEPT !.st.frames = SubSeq(@, 1, Len(st.frames))])

(* std::string's operator< on the characters the model's strings use. *)
CharOrder == <<"0", "1", "2", "a", "b">>
CharRank(c) == CHOOSE i \in 1..Len(CharOrder) : CharOrder[i] = c
RECURSIVE StringLess(_, _)
StringLess(l, r) ==
    IF r = <<>> THEN FALSE
    ELSE IF l = <<>> THEN TRUE
    ELSE IF l[1] # r[1] THEN CharRank(l[1]) < CharRank(r[1])
    ELSE StringLess(Tail(l), Tail(r))

(* Equal ending in return false instead of the throw: operands it cannot    *)
(* compare are unequal.                                                      *)
EqualFalseOnMismatch(lhs, rhs, st) ==
    IF lhs.kind = "None" /\ rhs.kind = "None" THEN Ok(st, TRUE)
    ELSE IF lhs.kind \in {"String", "Number", "Bool"} /\ lhs.kind = rhs.kind
    THEN Ok(st, lhs.value = rhs.value)
    ELSE IF lhs.kind = "ClassInstance" /\ HasMethod(st.heap[lhs.id].cls, "__eq__", 1)
    THEN WithResult(ClassInstanceCall(lhs.id, "__eq__", <<rhs>>, st), LAMBDA r :
            IF r.exc # "none" THEN r ELSE Ok(r.st, IsTrue(r.val)))
    ELSE Ok(st, FALSE)

(* bool Equal(lhs, rhs, context): val is the bool it returns. *)
Equal(lhs, rhs, st) ==
    IF lhs.kind = "None" /\ rhs.kind = "None" THEN Ok(st, TRUE)
    ELSE IF lhs.kind = "String" /\ rhs.kind = "String" THEN Ok(st, lhs.value = rhs.value)
    ELSE IF lhs.kind = "Number" /\ rhs.kind = "Number" THEN Ok(st, lhs.value = rhs.value)
    ELSE IF lhs.kind = "Bool" /\ rhs.kind = "Bool" THEN Ok(st, lhs.value = rhs.value)
    ELSE IF lhs.kind = "ClassInstance" /\ HasMethod(st.heap[lhs.id].cls, "__eq__", 1)
    THEN WithResult(ClassInstanceCall(lhs.id, "__eq__", <<rhs>>, st), LAMBDA r :
            IF r.exc # "none" THEN r ELSE Ok(r.st, IsTrue(r.val)))
    ELSE Raise(st, "runtime_error", NoneHolder)

(* bool Less(lhs, rhs, context) *)
Less(lhs, rhs, st) ==
    IF lhs.kind = "None" \/ rhs.kind = "None" THEN Raise(st, "runtime_error", NoneHolder)
    ELSE IF lhs.kind = "String" /\ rhs.kind = "String"
    THEN Ok(st, StringLess(lhs.value, rhs.value))
    ELSE IF lhs.kind = "Number" /\ rhs.kind = "Number" THEN Ok(st, lhs.value < rhs.value)
    ELSE IF lhs.kind = "Bool" /\ rhs.kind = "Bool" THEN Ok(st, ~lhs.value /\ rhs.value)
    ELSE IF lhs.kind = "ClassInstance" /\ HasMethod(st.heap[lhs.id].cls, "__lt__", 1)
    THEN WithResult(ClassInstanceCall(lhs.id, "__lt__", <<rhs>>, st), LAMBDA r :
            IF r.exc # "none" THEN r ELSE Ok(r.st, IsTrue(r.val)))
    ELSE Raise(st, "runtime_error", NoneHolder)

(* return !Equal(lhs, rhs, context); *)
NotEqual(lhs, rhs, st) ==
    WithResult(Equal(lhs, rhs, st), LAMBDA e :
        IF e.exc # "none" THEN e ELSE Ok(e.st, ~e.val))

(* return !Less(lhs, rhs, context) && !Equal(lhs, rhs, context); *)
Greater(lhs, rhs, st) ==
    WithResult(Less(lhs, rhs, st), LAMBDA l :
        IF l.exc # "none" THEN l
        ELSE IF l.val THEN Ok(l.st, FALSE)
        ELSE WithResult(Equal(lhs, rhs, l.st), LAMBDA e :
                IF e.exc # "none" THEN e ELSE Ok(e.st, ~e.val)))

(* return Less(lhs, rhs, context) || Equal(lhs, rhs, context); *)
LessOrEqual(lhs, rhs, st) ==
    WithResult(Less(lhs, rhs, st), LAMBDA l :
        IF l.exc # "none" THEN l
        ELSE IF l.val THEN Ok(l.st, TRUE)
        ELSE Equal(lhs, rhs, l.st))

(* return !Less(lhs, rhs, context); *)
GreaterOrEqual(lhs, rhs, st) ==
    WithResult(Less(lhs, rhs, st), LAMBDA l :
        IF l.exc # "none" THEN l ELSE Ok(l.st, ~l.val))

Comparators == {"Equal", "NotEqual", "Less", "Greater", "LessOrEqual", "GreaterOrEqual"}
(* The call cmp_(lhs, rhs, context) through the Comparator function pointer. *)
Comparator(cmp, lhs, rhs, st) ==
    CASE cmp = "Equal" -> Equal(lhs, rhs, st)
      [] cmp = "NotEqual" -> NotEqual(lhs, rhs, st)
      [] cmp = "Less" -> Less(lhs, rhs, st)
      [] cmp = "Greater" -> Greater(lhs, rhs, st)
      [] cmp = "LessOrEqual" -> LessOrEqual(lhs, rhs, st)
      [] cmp = "GreaterOrEqual" -> GreaterOrEqual(lhs, rhs, st)

(* ValueStatement<T>::Execute (NumericConst, StringConst, BoolConst, None) *)
ConstExecute(node, closure, st) == Ok(st, node.value)

(* An assignment that writes the variable of the global closure. *)
AssignmentToGlobal(node, closure, st) ==
    LET st1 == [st EXCEPT !.frames[1] = Emplace(@, node.var, NoneHolder)]
    IN WithResult(Execute(node.rv, closure, st1), LAMBDA r :
          IF r.exc # "none" THEN r
          ELSE Ok([r.st EXCEPT !.frames[1] = Bind(@, node.var, r.val)], r.val))

AssignmentExecute(node, closure, st) ==
    LET st1 == [st EXCEPT !.frames[closure] = Emplace(@, node.var, NoneHolder)]
    IN WithResult(Execute(node.rv, closure, st1), LAMBDA r :
          IF r.exc # "none" THEN r
          ELSE Ok([r.st EXCEPT !.frames[closure] = Bind(@, node.var, r.val)], r.val))

(* The closure a VariableValue looks a name up in: a frame or an instance's fields. *)
ClosureAt(st, ref) ==
    IF ref.fields THEN st.heap[ref.idx].fields ELSE st.frames[ref.idx]

RECURSIVE VariableValueLoop(_, _, _, _, _)
VariableValueLoop(var_names, i, current_closure, obj, st) ==
    IF i > Len(var_names) THEN Ok(st, obj)
    ELSE LET c == ClosureAt(st, current_closure)
         IN IF var_names[i] \notin DOMAIN c
            THEN Raise(st, "runtime_error", NoneHolder)
            ELSE LET found == c[var_names[i]]
                 IN VariableValueLoop(var_names, i + 1,
                                      IF found.kind = "ClassInstance"
                                      THEN [fields |-> TRUE, idx |-> found.id]
                                      ELSE current_closure,
                                      found, st)

VariableValueExecute(node, closure, st) ==
    VariableValueLoop(node.var_names, 1, [fields |-> FALSE, idx |-> closure], NoneHolder, st)

(* Object::Print of a holder that is not empty, up to the write: val is what *)
(* the object writes to the stream it is given, st the state after the        *)
(* __str__ call a ClassInstance makes first.                                  *)
RECURSIVE ObjectRender(_, _)
ObjectRender(obj, st) ==
    IF obj.kind = "Number" THEN Ok(st, [number |-> obj.value])
    ELSE IF obj.kind = "String" THEN Ok(st, [chars |-> obj.value])
    ELSE IF obj.kind = "Bool"
    THEN Ok(st, [text |-> IF obj.value THEN "True" ELSE "False"])
    ELSE IF obj.kind = "Class" THEN Ok(st, [class |-> obj.name])
    ELSE IF HasMethod(st.heap[obj.id].cls, "__str__", 0)
    THEN WithResult(ClassInstanceCall(obj.id, "__str__", <<>>, st), LAMBDA r :
            IF r.exc # "none" THEN r
            ELSE IF r.val.kind = "None" THEN Raise(r.st, "undefined", NoneHolder)
            ELSE ObjectRender(r.val, r.st))
    ELSE Ok(st, [address |-> obj.id])

(* Object::Print(context.GetOutputStream(), context) *)
ObjectPrint(obj, st) ==
    WithResult(ObjectRender(obj, st), LAMBDA r :
        IF r.exc # "none" THEN r
        ELSE Ok(Written(r.st, r.val), NoneHolder))

RECURSIVE PrintLoop(_, _, _, _)
PrintLoop(args, i, closure, st) ==
    IF i > Len(args) THEN Ok(Written(st, [text |-> "\n"]), NoneHolder)
    ELSE LET st1 == IF i > 1 THEN Written(st, [text |-> " "]) ELSE st
         IN WithResult(Execute(args[i], closure, st1), LAMBDA r :
               IF r.exc # "none" THEN r
               ELSE WithResult(IF r.val.kind # "None"
                               THEN ObjectPrint(r.val, r.st)
                               ELSE Ok(Written(r.st, [text |-> "None"]), NoneHolder),
                               LAMBDA p :
                                   IF p.exc # "none" THEN p
                                   ELSE PrintLoop(args, i + 1, closure, p.st)))

PrintExecute(node, closure, st) == PrintLoop(node.args, 1, closure, st)

MethodCallExecute(node, closure, st) ==
    WithResult(Execute(node.object, closure, st), LAMBDA o :
        IF o.exc # "none" THEN o
        ELSE WithResult(ExecuteAll(node.args, 1, <<>>, closure, o.st), LAMBDA a :
                IF a.exc # "none" THEN Raise(a.st, a.exc, a.val)
                ELSE IF o.val.kind # "ClassInstance"
                THEN Raise(a.st, "undefined", NoneHolder)
                ELSE ClassInstanceCall(o.val.id, node.method, a.vals, a.st)))

RECURSIVE CompoundLoop(_, _, _, _)
CompoundLoop(args, i, closure, st) ==
    IF i > Len(args) THEN Ok(st, NoneHolder)
    ELSE WithResult(Execute(args[i], closure, st), LAMBDA r :
            IF r.exc # "none" THEN r
            ELSE CompoundLoop(args, i + 1, closure, r.st))

CompoundExecute(node, closure, st) == CompoundLoop(node.args, 1, closure, st)

ReturnExecute(node, closure, st) ==
    WithResult(Execute(node.statement, closure, st), LAMBDA r :
        IF r.exc # "none" THEN r
        ELSE Raise(r.st, "return", r.val))

FieldAssignmentExecute(node, closure, st) ==
    WithResult(Execute(node.object, closure, st), LAMBDA o :
        IF o.exc # "none" THEN o
        ELSE IF o.val.kind # "ClassInstance"
        THEN Raise(o.st, "undefined", NoneHolder)
        ELSE WithResult(Execute(node.rv, closure, o.st), LAMBDA r :
                IF r.exc # "none" THEN r
                ELSE Ok([r.st EXCEPT !.heap[o.val.id].fields =
                                         Bind(@, node.field_name, r.val)],
                        r.val)))

IfElseExecute(node, closure, st) ==
    WithResult(Execute(node.condition, closure, st), LAMBDA c :
        IF c.exc # "none" THEN c
        ELSE IF IsTrue(c.val) THEN Execute(node.if_body, closure, c.st)
        ELSE IF node.else_body # NullStatement
        THEN Execute(node.else_body, closure, c.st)
        ELSE Ok(c.st, NoneHolder))

(* IsTrue(lhs) || IsTrue(rhs): the right operand runs only when the left is falsy. *)
OrExecute(node, closure, st) ==
    WithResult(Execute(node.lhs, closure, st), LAMBDA l :
        IF l.exc # "none" THEN l
        ELSE IF IsTrue(l.val) THEN Ok(l.st, Bool(TRUE))
        ELSE WithResult(Execute(node.rhs, closure, l.st), LAMBDA r :
                IF r.exc # "none" THEN r
                ELSE Ok(r.st, Bool(IsTrue(r.val)))))

(* IsTrue(lhs) && IsTrue(rhs): the right operand runs only when the left is truthy. *)
AndExecute(node, closure, st) ==
    WithResult(Execute(node.lhs, closure, st), LAMBDA l :
        IF l.exc # "none" THEN l
        ELSE IF ~IsTrue(l.val) THEN Ok(l.st, Bool(FALSE))
        ELSE WithResult(Execute(node.rhs, closure, l.st), LAMBDA r :
                IF r.exc # "none" THEN r
                ELSE Ok(r.st, Bool(IsTrue(r.val)))))

NotExecute(node, closure, st) ==
    WithResult(Execute(node.argument, closure, st), LAMBDA a :
        IF a.exc # "none" THEN a
        ELSE Ok(a.st, Bool(~IsTrue(a.val))))

NewInstanceExecute(node, closure, st) ==
    LET id == Len(st.heap) + 1
        obj_holder == Own(id)
        st1 == [st EXCEPT !.heap =
                   Append(@, [cls |-> node.cls,
                              fields |-> Bind(EmptyClosure, "self", obj_holder)])]
    IN IF HasMethod(node.cls, "__init__", Len(node.args))
       THEN WithResult(ExecuteAll(node.args, 1, <<>>, closure, st1), LAMBDA a :
               IF a.exc # "none" THEN Raise(a.st, a.exc, a.val)
               ELSE WithResult(ClassInstanceCall(id, "__init__", a.vals, a.st), LAMBDA r :
                       IF r.exc # "none" THEN r
                       ELSE Ok(r.st, obj_holder)))
       ELSE Ok(st1, obj_holder)

(* ClassDefinition::Execute: binds the class under its name. *)
ClassDefinitionExecute(node, closure, st) ==
    Ok([st EXCEPT !.frames[closure] = Bind(@, node.cls, ClassHolder(node.cls))],
       ClassHolder(node.cls))

(* Comparison::Execute.  The two operands are arguments of one call, so the  *)
(* build fixes which of them is executed first: st.rhs_first tells.          *)
ComparisonExecute(node, closure, st) ==
    WithResult(Execute(IF st.rhs_first THEN node.rhs ELSE node.lhs, closure, st), LAMBDA a :
        IF a.exc # "none" THEN a
        ELSE WithResult(Execute(IF st.rhs_first THEN node.lhs ELSE node.rhs, closure, a.st),
                        LAMBDA b :
                IF b.exc # "none" THEN b
                ELSE WithResult(IF st.rhs_first
                                THEN Comparator(node.cmp, b.val, a.val, b.st)
                                ELSE Comparator(node.cmp, a.val, b.val, b.st),
                                LAMBDA c :
                        IF c.exc # "none" THEN c ELSE Ok(c.st, Bool(c.val)))))

(* operator<< of an int: its decimal digits. *)
RECURSIVE DecimalChars(_)
DecimalChars(n) ==
    IF n < 0 THEN <<"-">> \o DecimalChars(0 - n)
    ELSE IF n < 10 THEN << Digits[n + 1] >>
    ELSE Append(DecimalChars(n \div 10), Digits[(n % 10) + 1])

(* The characters an object's Print leaves in the ostringstream; a class     *)
(* name and an instance's address (os << this) are kept as one element.      *)
StreamChars(piece) ==
    IF "number" \in DOMAIN piece THEN DecimalChars(piece.number)
    ELSE IF "chars" \in DOMAIN piece THEN piece.chars
    ELSE IF "text" \in DOMAIN piece
    THEN (IF piece.text = "True" THEN <<"T", "r", "u", "e">>
          ELSE <<"F", "a", "l", "s", "e">>)
    ELSE IF "class" \in DOMAIN piece
    THEN <<"C", "l", "a", "s", "s", " ", piece.class>>
    ELSE <<"0", "x">> \o DecimalChars(piece.address)

(* Stringify::Execute: the argument is executed, and executed again for the  *)
(* Print when the first value is not the empty holder.                       *)
StringifyExecute(node, closure, st) ==
    WithResult(Execute(node.argument, closure, st), LAMBDA obj :
        IF obj.exc # "none" THEN obj
        ELSE IF obj.val.kind = "None"
        THEN Ok(obj.st, String(<<"N", "o", "n", "e">>))
        ELSE WithResult(Execute(node.argument, closure, obj.st), LAMBDA again :
                IF again.exc # "none" THEN again
                ELSE IF again.val.kind = "None"
                THEN Raise(again.st, "undefined", NoneHolder)
                ELSE WithResult(ObjectRender(again.val, again.st), LAMBDA p :
                        IF p.exc # "none" THEN p
                        ELSE Ok(p.st, String(StreamChars(p.val))))))

(* MethodBody::Execute with catch (ObjectHolder) { } : the carried value is lost. *)
MethodBodyDropsValue(node, closure, st) ==
    WithResult(Execute(node.body, closure, st), LAMBDA r :
        IF r.exc = "return" THEN Ok(r.st, NoneHolder)
        ELSE IF r.exc # "none" THEN r
        ELSE Ok(r.st, NoneHolder))

MethodBodyExecute(node, closure, st) ==
    WithResult(Execute(node.body, closure, st), LAMBDA r :
        IF r.exc = "return" THEN Ok(r.st, r.val)
        ELSE IF r.exc # "none" THEN r
        ELSE Ok(r.st, NoneHolder))

(* The virtual call node->Execute(closure, context). *)
Dispatch(node, closure, st) ==
    CASE node.op = "Const" -> ConstExecute(node, closure, st)
      [] node.op = "Assignment" -> AssignmentExecute(node, closure, st)
      [] node.op = "VariableValue" -> VariableValueExecute(node, closure, st)
      [] node.op = "Print" -> PrintExecute(node, closure, st)
      [] node.op = "MethodCall" -> MethodCallExecute(node, closure, st)
      [] node.op = "Compound" -> CompoundExecute(node, closure, st)
      [] node.op = "Return" -> ReturnExecute(node, closure, st)
      [] node.op = "FieldAssignment" -> FieldAssignmentExecute(node, closure, st)
      [] node.op = "IfElse" -> IfElseExecute(node, closure, st)
      [] node.op = "Or" -> OrExecute(node, closure, st)
      [] node.op = "And" -> AndExecute(node, closure, st)
      [] node.op = "Not" -> NotExecute(node, closure, st)
      [] node.op = "NewInstance" -> NewInstanceExecute(node, closure, st)
      [] node.op = "MethodBody" -> MethodBodyExecute(node, closure, st)
      [] node.op = "ClassDefinition" -> ClassDefinitionExecute(node, closure, st)
      [] node.op = "Comparison" -> ComparisonExecute(node, closure, st)
      [] node.op = "Stringify" -> StringifyExecute(node, closure, st)

(* An Execute call, with the call and its outcome entered in the log; each   *)
(* entry keeps the closures and the instances as they are at that moment.     *)
Execute(node, closure, st) ==
    WithResult(Dispatch(node, closure,
                        Logged(st, [ev |-> "exec", frame |-> closure, node |-> node,
                                    frames |-> st.frames, heap |-> st.heap])),
               LAMBDA r :
                   [r EXCEPT !.st = Logged(@, [ev |-> "done", frame |-> closure,
                                               node |-> node, exc |-> r.exc,
                                               val |-> r.val,
                                               frames |-> r.st.frames,
                                               heap |-> r.st.heap])])

----------------------------------------------------------------------------
(* The programs: the driver executes root statements one after the other,     *)
(* each in the global closure (the loop of the root Compound).                *)

X == VariableValue(<<"x">>)
RootStatements ==
    { Assignment("x", NewInstance("C", <<>>)),
      Assignment("x", NewInstance("D", <<>>)),
      Assignment("r", MethodCall(X, "f", <<>>)),
      Assignment("r", MethodCall(X, "g", <<>>)),
      Assignment("r", MethodCall(X, "m", <<>>)),
      Assignment("r", MethodCall(X, "h", << Const(Number(0)) >>)),
      Assignment("r", MethodCall(X, "h", << Const(Number(1)) >>)),
      Assignment("r", And(Const(Number(0)), Assignment("s", Const(Number(1))))),
      Assignment("r", And(Const(Number(1)), Assignment("s", Const(Number(0))))),
      Assignment("r", Or(Const(Number(0)), Assignment("s", Const(Number(1))))),
      Assignment("r", Or(Const(Number(1)), Assignment("s", Const(Number(1))))),
      FieldAssignment(X, "self", Const(Number(5))),
      PrintNode(<< X, VariableValue(<<"r">>) >>),
      Return(Const(Number(7))) }

lexer_vars == <<source, lexer_state, tokens_, it_to_current_token_, returned>>
eval_vars == <<frames, heap, out, log, status, steps>>
vars == <<lexer_vars, eval_vars>>

LexerIdle ==
    /\ source = <<>>
    /\ lexer_state = "idle"
    /\ tokens_ = <<>>
    /\ it_to_current_token_ = 0
    /\ returned = Tok("nullopt")

EvalNew(st) ==
    /\ frames = << EmptyClosure >>
    /\ heap = <<>>
    /\ out = <<>>
    /\ log = <<>>
    /\ status = st
    /\ steps = 0

(* One iteration of the root Compound's loop: the statement runs in the       *)
(* global closure; an exception ends the run.                                 *)
RootExecute ==
    /\ status = "running"
    /\ steps < MaxSteps
    /\ \E node \in RootStatements :
          \E r \in { Execute(node, 1, [frames |-> frames, heap |-> heap,
                                       out |-> out, log |-> <<>>]) } :
             /\ frames' = r.st.frames
             /\ heap' = r.st.heap
             /\ out' = r.st.out
             /\ log' = r.st.log
             /\ status' = IF r.exc = "none" THEN "running" ELSE r.exc
    /\ steps' = steps + 1
    /\ UNCHANGED lexer_vars

InitEval == LexerIdle /\ EvalNew("running")
NextEval == RootExecute
SpecEval == InitEval /\ [][NextEval]_vars

(* One root statement out of nodes runs in the global closure; orders are    *)
(* the operand orders of Comparison::Execute the build may have.             *)
Run(nodes, orders) ==
    /\ status = "running"
    /\ steps < MaxSteps
    /\ \E node \in nodes, rhs_first \in orders :
          \E r \in { Execute(node, 1, [frames |-> frames, heap |-> heap, out |-> out,
                                       log |-> <<>>, rhs_first |-> rhs_first]) } :
             /\ frames' = r.st.frames
             /\ heap' = r.st.heap
             /\ out' = r.st.out
             /\ log' = r.st.log
             /\ status' = IF r.exc = "none" THEN "running" ELSE r.exc
    /\ steps' = steps + 1
    /\ UNCHANGED lexer_vars

----------------------------------------------------------------------------
(* The comparisons: a and b are bound in the global closure to two values    *)
(* out of None, numbers, strings, booleans, a class and three instances,     *)
(* and the program compares them:  r = a < b,  r = a == b, ...               *)

FieldPool == << Bool(TRUE), Number(0), Number(2) >>
LeafPool ==
    << NoneHolder, Number(0), Number(1), String(<<>>), String(<<"a">>), String(<<"b">>),
       Bool(FALSE), Bool(TRUE) >>
OperandPool == LeafPool \o << ClassHolder("E"), Own(1), Own(2), Own(3) >>

(* What  x = E(); x.lt = lt; x.eq = eq; y = E0(); z = D()  leaves. *)
CompareHeap(lt, eq) ==
    << [cls |-> "E", fields |-> ("self" :> Own(1)) @@ ("lt" :> lt) @@ ("eq" :> eq)],
       [cls |-> "E0", fields |-> ("self" :> Own(2))],
       [cls |-> "D", fields |-> ("self" :> Own(3)) @@ ("n" :> Number(0))] >>

A == VariableValue(<<"a">>)
B == VariableValue(<<"b">>)
CompareStatements == { Assignment("r", Comparison(cmp, A, B)) : cmp \in Comparators }

Compare == Run(CompareStatements, BOOLEAN)

InitCompare ==
    /\ LexerIdle
    /\ \E a \in 1..Len(OperandPool), b \in 1..Len(OperandPool),
          lt \in 1..Len(FieldPool), eq \in 1..Len(FieldPool) :
          /\ frames = << ("a" :> OperandPool[a]) @@ ("b" :> OperandPool[b]) >>
          /\ heap = CompareHeap(FieldPool[lt], FieldPool[eq])
    /\ out = <<>>
    /\ log = <<>>
    /\ status = "running"
    /\ steps = 0
NextCompare == Compare
SpecCompare == InitCompare /\ [][NextCompare]_vars

(* A source that is one line holding one string literal and what follows it. *)
StrAlphabet == {"a", "n", "t", "\\", "\"", "'"}
StringSources ==
    { << <<q>> \o s >> : q \in symbols_range, s \in SeqsUpTo(StrAlphabet, MaxStrLen) }

InitLexer ==
    /\ \E src \in SeqsUpTo(LinePool, MaxLines) \cup StringSources : LexerNew(src)
    /\ EvalNew("idle")
NextLexer == LexerCtor \/ NextToken
SpecLexer == InitLexer /\ [][NextLexer]_vars

----------------------------------------------------------------------------
(* Properties of the lexer. *)

LineView(line) == RemovePrefix(line, RemoveSpaceLeft(line))
IsBlankLine(line) == LineView(line) = <<>>
IsCommentLine(line) == LineView(line) # <<>> /\ LineView(line)[1] = "#"
IsCodeLine(line) == ~IsBlankLine(line) /\ ~IsCommentLine(line)
CodeLines(lines) == SelectSeq(lines, IsCodeLine)

Count(tokens, t) == Cardinality({i \in 1..Len(tokens) : tokens[i].type = t})

(* C4: a blank or comment line contributes no token and leaves the indent    *)
(* level alone: lexing a source gives what lexing it without those lines     *)
(* gives (the same tokens, or the same failure).                             *)
C4_BlankAndCommentLinesAreSkipped ==
    lexer_state # "new" =>
        LET r == LexerTokens(CodeLines(source))
        IN IF r.err # "none"
           THEN lexer_state = r.err
           ELSE lexer_state = "ready" /\ tokens_ = r.tokens

(* Each code line is at most one level deeper than the code line before it,  *)
(* and code and comment lines are indented by an even number of spaces.      *)
Level(line) == RemoveSpaceLeft(line) \div 2
WellIndented(lines) ==
    LET code == CodeLines(lines)
    IN /\ \A i \in 1..Len(lines) :
            ~IsBlankLine(lines[i]) => RemoveSpaceLeft(lines[i]) % 2 = 0
       /\ \A i \in 1..Len(code) :
            Level(code[i]) <= (IF i = 1 THEN 0 ELSE Level(code[i - 1])) + 1

Balanced(tokens) ==
    /\ Count(tokens, "Indent") = Count(tokens, "Dedent")
    /\ \A n \in 0..Len(tokens) :
          Count(SubSeq(tokens, 1, n), "Dedent") <= Count(SubSeq(tokens, 1, n), "Indent")

(* C5: the tokens of a well-indented program hold as many Indent as Dedent,  *)
(* and no prefix of them holds more Dedent than Indent.                      *)
C5_IndentsBalanceDedents ==
    (lexer_state = "ready" /\ WellIndented(source)) => Balanced(tokens_)

(* C6: every Newline token has, between it and the Newline before it (or the *)
(* start), a token that is not Indent, Dedent, Newline or Eof.               *)
C6_NoEmptyLogicalLine ==
    lexer_state = "ready" =>
        \A j \in 1..Len(tokens_) :
            tokens_[j].type = "Newline" =>
                \E i \in 1..(j - 1) :
                    /\ tokens_[i].type \notin StructuralTypes
                    /\ \A k \in i..(j - 1) : tokens_[k].type # "Newline"

AtEof == lexer_state = "ready" /\ CurrentToken = Tok("Eof")

(* C7: an accepted source's tokens hold exactly one Eof, the last token; the *)
(* cursor stays inside the tokens; at Eof, NextToken returns Eof and leaves  *)
(* the cursor where it is.                                                   *)
C7_EofLastAndSticky ==
    /\ [](lexer_state = "ready" =>
            /\ tokens_ # <<>>
            /\ tokens_[Len(tokens_)] = Tok("Eof")
            /\ Count(tokens_, "Eof") = 1
            /\ it_to_current_token_ \in 1..Len(tokens_))
    /\ [][AtEof => (it_to_current_token_' = it_to_current_token_
                    /\ returned' = Tok("Eof"))]_vars

C7_Witness ==
    /\ AtEof
    /\ Len(tokens_) > 1
    /\ returned = Tok("Eof")

(* Sufficient signs of the three malformations. *)
OddIndentCodeLine(line) == IsCodeLine(line) /\ RemoveSpaceLeft(line) % 2 # 0
UnterminatedStringLine(line) ==
    /\ LineView(line) # <<>>
    /\ LineView(line)[1] \in symbols_range
    /\ \A i \in 2..Len(LineView(line)) : LineView(line)[i] # LineView(line)[1]
StartsNoTokenLine(line) ==
    /\ IsCodeLine(line)
    /\ LET c == LineView(line)[1]
       IN /\ ~CheckSymbolForId(c)
          /\ c \notin chars
          /\ c \notin symbols_range
          /\ ~(c = "!" /\ Len(LineView(line)) >= 2 /\ LineView(line)[2] = "=")
Malformed(lines) ==
    \E i \in 1..Len(lines) :
        \/ OddIndentCodeLine(lines[i])
        \/ UnterminatedStringLine(lines[i])
        \/ StartsNoTokenLine(lines[i])

(* C8: constructing a Lexer on a source with an odd-indented code line, an   *)
(* unterminated string literal or a character that starts no token fails     *)
(* with a lexer error and yields no tokens.                                  *)
C8_MalformedSourceIsRejected ==
    (lexer_state # "new" /\ Malformed(source)) =>
        (lexer_state = "LexerError" /\ tokens_ = <<>>)

(* The payload the escape rules give: the scan of a literal's characters     *)
(* after its opening quote; closed tells whether the closing quote was met.  *)
Unescape(c) == IF c = "n" THEN "\n" ELSE IF c = "t" THEN "\t" ELSE c
RECURSIVE EscapedScan(_, _, _)
EscapedScan(body, value, start) ==
    IF body = <<>> THEN [closed |-> FALSE, value |-> value, rest |-> <<>>]
    ELSE IF body[1] = "\\" /\ Len(body) >= 2
    THEN EscapedScan(RemovePrefix(body, 2), Append(value, Unescape(body[2])), start)
    ELSE IF body[1] = start
    THEN [closed |-> TRUE, value |-> value, rest |-> Tail(body)]
    ELSE EscapedScan(Tail(body), Append(value, body[1]), start)

IsStringSource == source \in StringSources

(* C9: the payload of a string literal is its characters with every escape,  *)
(* read left to right, replaced by the one character it stands for; an       *)
(* escaped character neither starts an escape nor ends the literal.          *)
C9_StringEscapes ==
    (lexer_state # "new" /\ IsStringSource) =>
        LET scan == EscapedScan(Tail(source[1]), <<>>, source[1][1])
        IN (scan.closed /\ scan.rest = <<>>) =>
              /\ lexer_state = "ready"
              /\ tokens_ = <<ValTok("String", scan.value), Tok("Newline"), Tok("Eof")>>

----------------------------------------------------------------------------
(* Reading the log: every Execute call enters an "exec" event when it starts *)
(* and a "done" event when it returns or throws, so the log is the call tree *)
(* of the last root statement.                                               *)

IsExec(i) == log[i].ev = "exec"
IsDone(i) == log[i].ev = "done"
Balance(a, b) ==
    Cardinality({k \in a..b : IsExec(k)}) - Cardinality({k \in a..b : IsDone(k)})
(* The "done" event of the call that starts at i. *)
EndOf(i) == CHOOSE j \in (i + 1)..Len(log) :
                /\ Balance(i, j) = 0
                /\ \A m \in (i + 1)..(j - 1) : Balance(i, m) # 0
Calls == {i \in 1..Len(log) : IsExec(i)}
CallsOf(ops) == {i \in Calls : log[i].node.op \in ops}
(* Event k happens inside the call that starts at i. *)
Inside(i, k) == i < k /\ k < EndOf(i)
(* The calls a call makes itself: its node's children. *)
Children(i) ==
    {k \in Calls : Inside(i, k) /\ ~\E m \in Calls : Inside(i, m) /\ Inside(m, k)}
(* The Return nodes that threw, by the position of their "done" event. *)
Unwinds == {u \in 1..Len(log) :
               IsDone(u) /\ log[u].node.op = "Return" /\ log[u].exc = "return"}
MethodBodiesAround(u) == {i \in CallsOf({"MethodBody"}) : Inside(i, u)}
InnermostMethodBody(u) ==
    CHOOSE i \in MethodBodiesAround(u) : \A m \in MethodBodiesAround(u) : m <= i

SameNode(a, b) == a.op = b.op /\ a = b

(* C1: an And or Or node whose left operand returns executes its left and    *)
(* its right operand, once each and in this order, and returns the Bool of   *)
(* their truthiness combined.                                                *)
C1_AndOrEvaluateBothOperands ==
    \A i \in CallsOf({"And", "Or"}) :
        LET kids == Children(i)
        IN (\E k \in kids : log[EndOf(k)].exc = "none") =>
              /\ Cardinality(kids) = 2
              /\ \E a \in kids, b \in kids :
                    /\ a < b
                    /\ SameNode(log[a].node, log[i].node.lhs)
                    /\ SameNode(log[b].node, log[i].node.rhs)
                    /\ log[EndOf(b)].exc = "none" =>
                          /\ log[EndOf(i)].exc = "none"
                          /\ log[EndOf(i)].val =
                                Bool(IF log[i].node.op = "And"
                                     THEN IsTrue(log[EndOf(a)].val) /\ IsTrue(log[EndOf(b)].val)
                                     ELSE IsTrue(log[EndOf(a)].val) \/ IsTrue(log[EndOf(b)].val))

UnwindsOf(i) == {u \in Unwinds : Inside(i, u) /\ InnermostMethodBody(u) = i}

(* C2: in every MethodBody call, once a Return of its body has thrown no     *)
(* statement executes before the MethodBody returns, and it returns, without *)
(* throwing, the value the Return carried; a MethodBody whose body returns   *)
(* without a Return having thrown returns None.                              *)
C2_ReturnUnwindsToMethodBody ==
    \A i \in CallsOf({"MethodBody"}) :
        /\ \A u \in UnwindsOf(i) :
              /\ \A k \in (u + 1)..EndOf(i) : IsDone(k)
              /\ log[EndOf(i)].exc = "none"
              /\ log[EndOf(i)].val = log[u].val
        /\ (UnwindsOf(i) = {} /\ log[EndOf(i)].exc = "none") =>
              log[EndOf(i)].val = NoneHolder

(* A Return nested in two IfElse threw in a call made by another method,     *)
(* which then went on with its next statement.                               *)
C2_Witness ==
    \E i \in CallsOf({"MethodBody"}) :
        /\ \E u \in UnwindsOf(i) :
              Cardinality({k \in CallsOf({"IfElse"}) : Inside(i, k) /\ Inside(k, u)}) >= 2
        /\ \E o \in CallsOf({"MethodBody"}) :
              /\ Inside(o, i)
              /\ \E k \in Calls : k > EndOf(i) /\ Inside(o, k) /\ log[k].frame = log[o].frame
              /\ log[EndOf(o)].val = NoneHolder

(* Once an Execute call has thrown a runtime error every call around it      *)
(* throws it too, nothing more executes, and the root Execute throws it.     *)
RuntimeErrorsReachRoot ==
    \A j \in 1..Len(log) :
        (IsDone(j) /\ log[j].exc = "runtime_error") =>
            /\ \A k \in (j + 1)..Len(log) : IsDone(k) /\ log[k].exc = "runtime_error"
            /\ status = "runtime_error"

(* C3: a runtime error raised while a method body executes reaches the       *)
(* caller of the root Execute, and the return signal of a Return is always   *)
(* consumed by a MethodBody and never reaches that caller.                   *)
C3_ReturnSignalNeverReachesRoot ==
    /\ RuntimeErrorsReachRoot
    /\ \A u \in Unwinds : MethodBodiesAround(u) # {}
    /\ status # "return"

(* C10: the fields of every ClassInstance hold self, a non-owning (Share)    *)
(* handle to that instance.                                                  *)
C10_FieldsHoldSharedSelf ==
    \A id \in 1..Len(heap) :
        /\ "self" \in DOMAIN heap[id].fields
        /\ heap[id].fields["self"] = Share(id)

----------------------------------------------------------------------------
(* Method calls: x is an instance of one of the chain classes, of S or of R, *)
(* and the program calls its methods:  r = x.p(),  r = x.p(7),  ...          *)

CallClasses == KNames \cup {"S", "R"}
CallNames == {"n", "p", "q", "z", "s", "d", "rec", "leak", "peek"}
CallArgs == << <<>>, << Const(Number(7)) >>, << Const(Number(7)), Const(Number(8)) >> >>
CallStatements ==
    { Assignment("r", MethodCall(X, name, CallArgs[k])) :
          name \in CallNames, k \in 1..Len(CallArgs) }

Call == Run(CallStatements, {FALSE})

(* What  x = cls()  leaves: none of these classes has an __init__. *)
InitCall ==
    /\ LexerIdle
    /\ \E cls \in CallClasses :
          /\ frames = << ("x" :> Own(1)) >>
          /\ heap = << [cls |-> cls, fields |-> ("self" :> Own(1))] >>
    /\ out = <<>>
    /\ log = <<>>
    /\ status = "running"
    /\ steps = 0
NextCall == Call
SpecCall == InitCall /\ [][NextCall]_vars

----------------------------------------------------------------------------
(* Paths, field assignments, str() and assignments: the global closure has  *)
(* a, b = 2 and x, an instance of E with the field n = 1; the program reads *)
(* and assigns through a and x.                                             *)

StmtPool == LeafPool \o << ClassHolder("E"), Own(1) >>
StmtStatements ==
    { Assignment("r", VariableValue(<<"a", "b">>)),
      Assignment("r", VariableValue(<<"a", "zz">>)),
      Assignment("r", VariableValue(<<"x", "n">>)),
      Assignment("r", VariableValue(<<"x", "n", "lt">>)),
      FieldAssignment(A, "f", Const(Number(5))),
      FieldAssignment(X, "n", Const(Number(0))),
      Assignment("r", Stringify(A)),
      Assignment("r", Stringify(VariableValue(<<"x", "n">>))),
      Assignment("r", Stringify(MethodCall(X, "__gt__", << Const(Number(0)) >>))),
      Assignment("v", VariableValue(<<"v">>)),
      Assignment("w", VariableValue(<<"q">>)),
      Assignment("b", VariableValue(<<"q">>)) }

Stmt == Run(StmtStatements, {FALSE})

InitStmt ==
    /\ LexerIdle
    /\ \E a \in 1..Len(StmtPool) :
          frames = << ("a" :> StmtPool[a]) @@ ("b" :> Number(2)) @@ ("x" :> Own(1)) >>
    /\ heap = << [cls |-> "E",
                  fields |-> ("self" :> Own(1)) @@ ("lt" :> Bool(TRUE))
                                @@ ("eq" :> Bool(FALSE)) @@ ("n" :> Number(1))] >>
    /\ out = <<>>
    /\ log = <<>>
    /\ status = "running"
    /\ steps = 0
NextStmt == Stmt
SpecStmt == InitStmt /\ [][NextStmt]_vars

----------------------------------------------------------------------------
(* Properties of the comparisons. *)

(* The value an operand of the call at i evaluated to, and the method bodies *)
(* the call at i executed itself.                                            *)
OperandCalls(i, node) == {k \in Children(i) : SameNode(log[k].node, node)}
OperandsDone(i) ==
    \A node \in {log[i].node.lhs, log[i].node.rhs} :
        \E k \in OperandCalls(i, node) : log[EndOf(k)].exc = "none"
OperandVal(i, node) == log[EndOf(CHOOSE k \in OperandCalls(i, node) : TRUE)].val
BodiesOf(i) == {k \in Children(i) : log[k].node.op = "MethodBody"}
Returned(j, b) == log[j].exc = "none" /\ log[j].val = Bool(b)
(* The call at k executes the body of the instance's method, in a closure    *)
(* that binds o to arg and self to the instance.                             *)
CalledWith(k, id, method, arg) ==
    /\ log[k].node = GetMethod(log[k].heap[id].cls, method).body
    /\ log[k].frames[log[k].frame] = ("o" :> arg) @@ ("self" :> Share(id))
(* The state a comparison starts from, and what a Comparator made of it. *)
StateAt(i) == [frames |-> log[i].frames, heap |-> log[i].heap, out |-> <<>>,
               log |-> <<>>, rhs_first |-> FALSE]
Outcome(r) == IF r.exc = "none" THEN <<"none", r.val>> ELSE <<r.exc>>
LeafKinds == {"String", "Number", "Bool"}

(* C11: where Less and Equal are defined, NotEqual = ~Equal, Greater = ~Less *)
(* /\ ~Equal, LessOrEqual = Less \/ Equal and GreaterOrEqual = ~Less; Greater *)
(* on a ClassInstance calls its __lt__ and its __eq__ with the right operand *)
(* and never its __gt__.                                                     *)
C11_DerivedComparisons ==
    \A i \in CallsOf({"Comparison"}) :
        OperandsDone(i) =>
            LET l == OperandVal(i, log[i].node.lhs)
                r == OperandVal(i, log[i].node.rhs)
                cmp == log[i].node.cmp
                less == Less(l, r, StateAt(i))
                equal == Equal(l, r, StateAt(i))
            IN (less.exc = "none" /\ equal.exc = "none") =>
                  /\ cmp = "NotEqual" => Returned(EndOf(i), ~equal.val)
                  /\ cmp = "Greater" => Returned(EndOf(i), ~less.val /\ ~equal.val)
                  /\ cmp = "LessOrEqual" => Returned(EndOf(i), less.val \/ equal.val)
                  /\ cmp = "GreaterOrEqual" => Returned(EndOf(i), ~less.val)
                  /\ (cmp = "Greater" /\ l.kind = "ClassInstance") =>
                        /\ \E k \in BodiesOf(i) : CalledWith(k, l.id, "__lt__", r)
                        /\ \E k \in BodiesOf(i) : CalledWith(k, l.id, "__eq__", r)
                        /\ \A k \in BodiesOf(i) : log[k].node # Body_gt

(* C12: Equal is true on None and None, compares the payloads of two leaves  *)
(* of one kind, is the truthiness of l.__eq__(r) for an instance l with a    *)
(* one-argument __eq__, and throws a runtime error otherwise; on two leaves  *)
(* Equal(a, b) and Equal(b, a) have the same outcome.                        *)
C12_EqualByCases ==
    \A i \in CallsOf({"Comparison"}) :
        (log[i].node.cmp = "Equal" /\ OperandsDone(i)) =>
            LET l == OperandVal(i, log[i].node.lhs)
                r == OperandVal(i, log[i].node.rhs)
                j == EndOf(i)
            IN /\ IF l.kind = "None" /\ r.kind = "None"
                  THEN Returned(j, TRUE) /\ BodiesOf(i) = {}
                  ELSE IF l.kind \in LeafKinds /\ l.kind = r.kind
                  THEN Returned(j, l.value = r.value) /\ BodiesOf(i) = {}
                  ELSE IF l.kind = "ClassInstance"
                          /\ HasMethod(log[i].heap[l.id].cls, "__eq__", 1)
                  THEN \E k \in BodiesOf(i) :
                          /\ BodiesOf(i) = {k}
                          /\ CalledWith(k, l.id, "__eq__", r)
                          /\ IF log[EndOf(k)].exc = "none"
                             THEN Returned(j, IsTrue(log[EndOf(k)].val))
                             ELSE log[j].exc = log[EndOf(k)].exc
                  ELSE log[j].exc = "runtime_error" /\ BodiesOf(i) = {}
               /\ (l.kind \in LeafKinds /\ r.kind \in LeafKinds) =>
                     Outcome(Equal(l, r, StateAt(i))) = Outcome(Equal(r, l, StateAt(i)))

(* An instance's __eq__ decided an Equal with a number, which returned true. *)
C12_Witness ==
    \E i \in CallsOf({"Comparison"}) :
        /\ log[i].node.cmp = "Equal"
        /\ OperandsDone(i)
        /\ OperandVal(i, log[i].node.lhs).kind = "ClassInstance"
        /\ OperandVal(i, log[i].node.rhs).kind = "Number"
        /\ BodiesOf(i) # {}
        /\ Returned(EndOf(i), TRUE)

----------------------------------------------------------------------------
(* Properties of method resolution and of method calls. *)

(* The methods a class declares itself under a name. *)
OwnDefinitions(cls, name) ==
    { m \in { ClassTable[cls].methods[i] : i \in 1..Len(ClassTable[cls].methods) } :
          m.name = name }
(* The definition of a name nearest to a class on its parent chain, found by *)
(* walking the chain class by class.                                        *)
RECURSIVE NearestDefinition(_, _)
NearestDefinition(cls, name) ==
    IF cls = "" THEN NullMethod
    ELSE IF OwnDefinitions(cls, name) # {}
         THEN CHOOSE m \in OwnDefinitions(cls, name) : TRUE
         ELSE NearestDefinition(ClassTable[cls].parent, name)

ArgCounts == 0..2
(* The instance a method call's object expression gave, and the class of it. *)
ReceiverOf(i) == log[EndOf(CHOOSE k \in Children(i) : \A m \in Children(i) : k <= m)].val
ReceiverClass(i) == log[i].heap[ReceiverOf(i).id].cls

(* C13: GetMethod(name) on a class returns the definition of name nearest to *)
(* the class on its parent chain, and null when the chain has none;          *)
(* HasMethod(name, k) is true exactly when that nearest definition exists    *)
(* and has k formal parameters, so a definition of another arity hides every *)
(* ancestor's definition of the name.  The body a method call on an instance *)
(* executes is the body of that nearest definition.                         *)
C13_NearestDefinitionExactArity ==
    /\ \A id \in 1..Len(heap), name \in CallNames :
          /\ GetMethod(heap[id].cls, name) = NearestDefinition(heap[id].cls, name)
          /\ \A k \in ArgCounts :
                HasMethod(heap[id].cls, name, k) =
                   /\ NearestDefinition(heap[id].cls, name) # NullMethod
                   /\ Len(NearestDefinition(heap[id].cls, name).formal_params) = k
    /\ \A i \in CallsOf({"MethodCall"}) :
          \A b \in BodiesOf(i) :
             /\ log[b].node = NearestDefinition(ReceiverClass(i), log[i].node.method).body
             /\ Len(NearestDefinition(ReceiverClass(i), log[i].node.method).formal_params)
                   = Len(log[i].node.args)

(* A call on an instance of a chain class ran a body that an ancestor of    *)
(* its class defines, and the class above the receiver's own redefines the  *)
(* name further up with another arity.                                      *)
C13_Witness ==
    /\ heap[1].cls \in KNames
    /\ \E i \in CallsOf({"MethodCall"}) :
          \E b \in BodiesOf(i) :
             /\ OwnDefinitions(heap[1].cls, log[i].node.method) = {}
             /\ log[b].node = GetMethod(ClassTable[heap[1].cls].parent, log[i].node.method).body
             /\ \E up \in KNames :
                   /\ up = ClassTable[ClassTable[heap[1].cls].parent].parent
                   /\ OwnDefinitions(up, log[i].node.method) # {}
                   /\ GetMethod(up, log[i].node.method).formal_params
                         # GetMethod(heap[1].cls, log[i].node.method).formal_params

(* The n-th call a call makes itself, and the value it gave. *)
NthChild(i, n) == CHOOSE k \in Children(i) : Cardinality({m \in Children(i) : m < k}) = n - 1
ArgVal(i, n) == log[EndOf(NthChild(i, n + 1))].val
(* The method calls that reached ClassInstance::Call: the object expression *)
(* gave an instance and every argument was evaluated.                       *)
ReachedCalls ==
    { i \in CallsOf({"MethodCall"}) :
         /\ Cardinality(Children(i) \ BodiesOf(i)) = 1 + Len(log[i].node.args)
         /\ \A k \in Children(i) \ BodiesOf(i) : log[EndOf(k)].exc = "none"
         /\ ReceiverOf(i).kind = "ClassInstance" }
Range(seq) == { seq[k] : k \in 1..Len(seq) }

(* C15: a call of a method on an instance with arguments argv raises a      *)
(* runtime error and executes no method body when the instance's class has  *)
(* no method of that name with Len(argv) formal parameters; otherwise it    *)
(* executes the resolved body, once, in a closure whose keys are the formal *)
(* parameter names and self, where the i-th formal parameter holds the i-th *)
(* argument and self holds the receiving instance.                          *)
C15_CallBindsParamsAndSelf ==
    \A i \in ReachedCalls :
        IF ~HasMethod(ReceiverClass(i), log[i].node.method, Len(log[i].node.args))
        THEN /\ log[EndOf(i)].exc = "runtime_error"
             /\ BodiesOf(i) = {}
        ELSE \E b \in Children(i) :
                /\ BodiesOf(i) = {b}
                /\ log[b].node = GetMethod(ReceiverClass(i), log[i].node.method).body
                /\ DOMAIN log[b].frames[log[b].frame] =
                      Range(GetMethod(ReceiverClass(i), log[i].node.method).formal_params)
                         \cup {"self"}
                /\ \A n \in 1..Len(log[i].node.args) :
                      log[b].frames[log[b].frame]
                         [GetMethod(ReceiverClass(i), log[i].node.method).formal_params[n]]
                            = ArgVal(i, n)
                /\ log[b].frames[log[b].frame]["self"].kind = "ClassInstance"
                /\ log[b].frames[log[b].frame]["self"].id = ReceiverOf(i).id

AllMethods == UNION { Range(ClassTable[cls].methods) : cls \in ClassNames }
Below(fs, g) == SubSeq(fs, 1, g - 1)

(* C16: every invocation of a method body runs in a closure of its own that *)
(* starts with the formal parameters and self only; while it runs, and      *)
(* after it has ended, the closures of its callers and the global closure   *)
(* are as they were when it started; and an Assignment changes the closure  *)
(* it is executed in, at its variable, and no other closure.                *)
C16_CallLocalClosures ==
    /\ \A b \in CallsOf({"MethodBody"}) :
          /\ log[b].frame = Len(log[b].frames)
          /\ log[b].frame >= 2
          /\ \E mth \in AllMethods :
                /\ mth.body = log[b].node
                /\ DOMAIN log[b].frames[log[b].frame] = Range(mth.formal_params) \cup {"self"}
          /\ \A e \in b..EndOf(b) :
                Below(log[e].frames, log[b].frame) = Below(log[b].frames, log[b].frame)
          /\ EndOf(b) < Len(log) =>
                log[EndOf(b) + 1].frames = Below(log[b].frames, log[b].frame)
    /\ \A a \in CallsOf({"Assignment"}) :
          log[EndOf(a)].exc = "none" =>
             log[EndOf(a)].frames =
                [log[EndOf(a) - 1].frames EXCEPT
                    ![log[a].frame] = Bind(@, log[a].node.var, log[EndOf(a)].val)]

(* A method called itself; the inner invocation assigned t in a closure of *)
(* its own, and when the outer invocation ended its t held another value;  *)
(* the method's result went to r of the global closure, which has no t.    *)
C16_Witness ==
    /\ status = "running"
    /\ "r" \in DOMAIN frames[1]
    /\ "t" \notin DOMAIN frames[1]
    /\ \E b \in CallsOf({"MethodBody"}), c \in CallsOf({"MethodBody"}) :
          /\ Inside(b, c)
          /\ log[b].node = log[c].node
          /\ log[c].frame # log[b].frame
          /\ \E a \in CallsOf({"Assignment"}) :
                /\ Inside(c, a)
                /\ log[a].node.var = "t"
                /\ log[a].frame = log[c].frame
                /\ log[EndOf(a)].exc = "none"
                /\ log[EndOf(b)].frames[log[b].frame]["t"] # log[EndOf(a)].val

----------------------------------------------------------------------------
(* Properties of paths, field assignments, str() and assignments. *)

(* Walking a path name by name, each next name in the fields of the         *)
(* instance reached: some name before the last one reaches a value that is  *)
(* not an instance.                                                         *)
RECURSIVE ReachesNonInstance(_, _, _, _)
ReachesNonInstance(var_names, k, c, hp) ==
    /\ k < Len(var_names)
    /\ var_names[k] \in DOMAIN c
    /\ \/ c[var_names[k]].kind # "ClassInstance"
       \/ /\ c[var_names[k]].kind = "ClassInstance"
          /\ ReachesNonInstance(var_names, k + 1, hp[c[var_names[k]].id].fields, hp)
Unchanged(i) ==
    /\ log[EndOf(i)].frames = log[i].frames
    /\ log[EndOf(i)].heap = log[i].heap

(* C14: a VariableValue whose path reaches, before its last name, a value   *)
(* that is not an instance, and a FieldAssignment whose object is not an    *)
(* instance, end in a runtime error and leave every closure as it was.      *)
C14_FieldAccessOnNonInstanceRaises ==
    /\ \A i \in CallsOf({"VariableValue"}) :
          ReachesNonInstance(log[i].node.var_names, 1,
                             log[i].frames[log[i].frame], log[i].heap) =>
             /\ log[EndOf(i)].exc = "runtime_error"
             /\ Unchanged(i)
    /\ \A i \in CallsOf({"FieldAssignment"}) :
          (\E k \in OperandCalls(i, log[i].node.object) :
              /\ log[EndOf(k)].exc = "none"
              /\ log[EndOf(k)].val.kind # "ClassInstance") =>
             /\ log[EndOf(i)].exc = "runtime_error"
             /\ Unchanged(i)

(* What Print writes for a value that is not an instance. *)
Rendering(v, i) ==
    IF v.kind = "None" THEN <<"N", "o", "n", "e">>
    ELSE StreamChars(ObjectRender(v, StateAt(i)).val)

(* C17: a Stringify node executes its argument exactly once, and when it    *)
(* returns, its value is the String of what Print writes for the value that *)
(* this one execution gave, None for the empty holder.                      *)
C17_StringifyExecutesArgumentOnce ==
    \A i \in CallsOf({"Stringify"}) :
        /\ Cardinality(OperandCalls(i, log[i].node.argument)) = 1
        /\ log[EndOf(i)].exc = "none" =>
              \A k \in OperandCalls(i, log[i].node.argument) :
                 log[EndOf(k)].val.kind # "ClassInstance" =>
                    log[EndOf(i)].val = String(Rendering(log[EndOf(k)].val, i))

(* C18: an Assignment executes its right-hand side in the closure as it was *)
(* when the Assignment started; when the right-hand side raises a runtime   *)
(* error the closure binds the variable as it did before (not at all, when  *)
(* it was unbound); and an Assignment of an unbound variable to itself      *)
(* raises a runtime error.                                                  *)
C18_AssignmentBindsAfterRhs ==
    \A a \in CallsOf({"Assignment"}) :
        LET f == log[a].frame
            var == log[a].node.var
        IN /\ log[a + 1].frames = log[a].frames
           /\ log[EndOf(a)].exc = "runtime_error" =>
                 /\ var \in DOMAIN log[EndOf(a)].frames[f] <=> var \in DOMAIN log[a].frames[f]
                 /\ var \in DOMAIN log[a].frames[f] =>
                       log[EndOf(a)].frames[f][var] = log[a].frames[f][var]
           /\ (/\ log[a].node.rv = VariableValue(<< var >>)
               /\ var \notin DOMAIN log[a].frames[f]) =>
                 log[EndOf(a)].exc = "runtime_error"

====
